---- MODULE Spec2Model ----
(***************************************************************************)
(* Model of `ipsw idev img sign` (cmd/ipsw/cmd/idev/idev_img_sign.go):     *)
(* one invocation of idevImgSignCmd.RunE, statement by statement, with the *)
(* collaborators it calls (os, filepath, utils, plist, tss) as             *)
(* nondeterministic outcomes.  Strings that the code formats, joins or     *)
(* reports are sequences of one-character strings.                         *)
(***************************************************************************)
EXTENDS Integers, Sequences, FiniteSets, TLC

(***************************************************************************)
(* Bounds of the model.                                                    *)
(***************************************************************************)
\* identity values 0..MaxID are enumerated for --board-id, --chip-id, --ecid
MaxID == 1
\* longest signature payload the signing exchange returns
MaxSigLen == 2

(***************************************************************************)
(* Program constants.                                                      *)
(***************************************************************************)
\* mutant: one attempt more
RetryAttemptsMore == 3 + 1

\* utils.Retry(3, 2*time.Second, ...)
RetryAttempts == 3

DmgRelPath == <<"/", "C", "o", "n", "t", "e", "n", "t", "s", "/", "R", "e", "s", "o", "u", "r", "c", "e", "s", "/", "C", "o", "r", "e", "D", "e", "v", "i", "c", "e", "D", "D", "I", "s", "/", "i", "O", "S", "_", "D", "D", "I", ".", "d", "m", "g">>

ManifestRelPath == <<"R", "e", "s", "t", "o", "r", "e", "/", "B", "u", "i", "l", "d", "M", "a", "n", "i", "f", "e", "s", "t", ".", "p", "l", "i", "s", "t">>

SignatureSuffix == <<"p", "e", "r", "s", "o", "n", "a", "l", "i", "z", "e", "d", ".", "s", "i", "g", "n", "a", "t", "u", "r", "e">>

(***************************************************************************)
(* fmt.Sprintf("%d", n) for an unsigned integer: decimal digits, most      *)
(* significant first, no padding.                                          *)
(***************************************************************************)
Digits == <<"0", "1", "2", "3", "4", "5", "6", "7", "8", "9">>

RECURSIVE FormatUint(_)
FormatUint(n) ==
    IF n < 10 THEN <<Digits[n + 1]>>
    ELSE FormatUint(n \div 10) \o <<Digits[(n % 10) + 1]>>

(***************************************************************************)
(* filepath.Clean and filepath.Join (Unix), as the standard library        *)
(* computes them: a read index r over the path, an output buffer out, and  *)
(* dotdot, the length of the prefix of out that ".." may not remove.       *)
(***************************************************************************)
RECURSIVE ComponentEnd(_, _)
ComponentEnd(path, r) ==
    IF r > Len(path) \/ path[r] = "/" THEN r ELSE ComponentEnd(path, r + 1)

RECURSIVE BacktrackTo(_, _, _)
BacktrackTo(out, w, dotdot) ==
    IF w > dotdot /\ out[w + 1] # "/" THEN BacktrackTo(out, w - 1, dotdot) ELSE w

RECURSIVE CleanLoop(_, _, _, _, _)
CleanLoop(path, rooted, r, out, dotdot) ==
    LET n == Len(path) IN
    IF r > n THEN out
    ELSE IF path[r] = "/" THEN CleanLoop(path, rooted, r + 1, out, dotdot)
    ELSE IF path[r] = "." /\ (r = n \/ path[r + 1] = "/")
         THEN CleanLoop(path, rooted, r + 1, out, dotdot)
    ELSE IF path[r] = "." /\ path[r + 1] = "." /\ (r + 1 = n \/ path[r + 2] = "/")
         THEN IF Len(out) > dotdot
              THEN CleanLoop(path, rooted, r + 2,
                             SubSeq(out, 1, BacktrackTo(out, Len(out) - 1, dotdot)), dotdot)
              ELSE IF ~rooted
              THEN LET o2 == (IF Len(out) > 0 THEN out \o <<"/">> ELSE out) \o <<".", ".">>
                   IN CleanLoop(path, rooted, r + 2, o2, Len(o2))
              ELSE CleanLoop(path, rooted, r + 2, out, dotdot)
    ELSE LET o1 == IF (rooted /\ Len(out) # 1) \/ (~rooted /\ Len(out) # 0)
                   THEN out \o <<"/">> ELSE out
             e == ComponentEnd(path, r)
         IN CleanLoop(path, rooted, e, o1 \o SubSeq(path, r, e - 1), dotdot)

Clean(path) ==
    IF path = <<>> THEN <<".">>
    ELSE LET rooted == path[1] = "/"
             out == IF rooted THEN CleanLoop(path, TRUE, 2, <<"/">>, 1)
                    ELSE CleanLoop(path, FALSE, 1, <<>>, 0)
         IN IF out = <<>> THEN <<".">> ELSE out

\* filepath.Join(a, b): empty leading elements are skipped, the rest is
\* joined with "/" and cleaned
Join(a, b) ==
    IF a # <<>> THEN Clean(a \o <<"/">> \o b)
    ELSE IF b # <<>> THEN Clean(b)
    ELSE <<>>

(***************************************************************************)
(* Errors.  An error value carries the message format of its fmt.Errorf,   *)
(* the value substituted for %s (arg) and the wrapped cause (%w).          *)
(***************************************************************************)
NoCause == [op |-> "", path |-> <<>>, err |-> ""]

\* *fs.PathError of package os: the operation, the path it was given, the errno
PathError(op, path, err) == [op |-> op, path |-> path, err |-> err]

\* error of a collaborator that carries no path
OpaqueError(op) == [op |-> op, path |-> <<>>, err |-> "failed"]

Pending == [status |-> "pending", msg |-> "", arg |-> <<>>, cause |-> NoCause]

Nil == [status |-> "nil", msg |-> "", arg |-> <<>>, cause |-> NoCause]

Errorf(msg, arg, cause) == [status |-> "error", msg |-> msg, arg |-> arg, cause |-> cause]

ErrBothSources == Errorf("cannot specify both --xcode and --manifest", <<>>, NoCause)

ErrNoSource == Errorf("must specify either --xcode or --manifest", <<>>, NoCause)

ErrIdentity == Errorf("must specify --board-id, --chip-id, --ecid AND --nonce", <<>>, NoCause)

ErrFindDmg(xc) ==
    Errorf("failed to find iOS_DDI.dmg in '%s' (install NEW XCode.app or Xcode-beta.app)", xc, NoCause)

ErrMount(cause) == Errorf("failed to mount iOS_DDI.dmg: %w", <<>>, cause)

ErrReadManifest(cause) == Errorf("failed to read BuildManifest.plist: %w", <<>>, cause)

ErrParseManifest(cause) == Errorf("failed to parse BuildManifest.plist: %w", <<>>, cause)

ErrPersonalize(cause) == Errorf("failed to personalize DDI: %w", <<>>, cause)

ErrMkdir(out, cause) == Errorf("failed to create output folder '%s': %w", out, cause)

\* mutant: the cause is left out of the message (no %w)
ErrWriteNoCause(out, cause) == Errorf("failed to write signature to %s", out, NoCause)

ErrWrite(out, cause) == Errorf("failed to write signature to %s: %w", out, cause)

(***************************************************************************)
(* Inputs (the viper flags read at lines 79-85) and the values the         *)
(* collaborators can hand back.                                            *)
(***************************************************************************)
XcodePaths == { <<>>, <<"/", "A", "p", "p", "l", "i", "c", "a", "t", "i", "o", "n", "s", "/", "X", "c", "o", "d", "e", ".", "a", "p", "p">> }

ManifestPaths == { <<>>, <<"m", ".", "p", "l", "i", "s", "t">> }

BoardIDs == (0..MaxID) \cup {100}

ChipIDs == (0..MaxID) \cup {200}

ECIDs == (0..MaxID) \cup {300}

Nonces == { <<>>, <<"a", "b">> }

Outputs == { <<>>, <<"o">>, <<".", "/", "o", "/">>, <<"/">>, <<"a", "/", ".", ".", "/", "o">> }

Proxies == { <<>>, <<"h", ":", "8">> }

Flags == [xcode : XcodePaths, manifest : ManifestPaths, boardID : BoardIDs,
          chipID : ChipIDs, ecid : ECIDs, nonce : Nonces, output : Outputs,
          proxy : Proxies, insecure : BOOLEAN]

\* mount points utils.MountDMG can return
MountPoints == { <<"/", "m">>, <<"/", "v", "/", "d">> }

\* contents a manifest file can have
ManifestContents == {"plist", "garbage"}

Bytes == {0, 255}

\* byte payloads tss.Personalize can return
Payloads == UNION { [1..n -> Bytes] : n \in 0..MaxSigLen }

StatResults == {"ok", "ErrNotExist", "ErrPermission"}

(***************************************************************************)
(* Contracts of the collaborators whose code is outside this file.         *)
(***************************************************************************)
\* utils.MountDMG(path) -> (mountPoint, alreadyMounted, err): an image that is
\* mounted is reported as already mounted; a failure returns no mount point
MountDMGResults(isMounted) ==
    { [mountPoint |-> mp, alreadyMounted |-> isMounted, failed |-> FALSE] : mp \in MountPoints }
      \cup { [mountPoint |-> <<>>, alreadyMounted |-> FALSE, failed |-> TRUE] }

\* plist.ParseBuildManifest(data) -> (BuildManifest, err)
ParseBuildManifestFails(data) == data # "plist"

\* utils.Retry(attempts, sleep, f): f is tried until it returns nil or
\* `attempts` tries have failed; RetryGivesUp is the loop's exit on failure
RetryGivesUp(failedTries, attempts) == failedTries >= attempts

(***************************************************************************)
(* State.                                                                  *)
(***************************************************************************)
VARIABLES
    flags,          \* the flag values of this invocation
    pc,             \* the statement RunE is at
    ret,            \* the value of the return statement RunE executed
    statErr,        \* the error of os.Stat at line 97 ("none" before the call)
    manifestPath,   \* local manifestPath (reassigned at line 117)
    mountPoint,     \* local mountPoint
    alreadyMounted, \* local alreadyMounted
    deferred,       \* TRUE once the deferred unmount closure is registered
    manifestData,   \* local manifestData
    buildManifest,  \* local buildManifest
    request,        \* the tss.PersonalConfig handed to tss.Personalize
    sigData,        \* local sigData
    fname,          \* local fname
    tries,          \* failed attempts of the running utils.Retry
    warned,         \* TRUE once log.Errorf("failed to unmount ...") ran
    calls,          \* the collaborator calls made so far, in order
    mounted,        \* world: the disk image is mounted
    files,          \* world: files written, path -> content
    dirs            \* world: directories created

vars == <<flags, pc, ret, statErr, manifestPath, mountPoint, alreadyMounted, deferred,
          manifestData, buildManifest, request, sigData, fname, tries, warned,
          calls, mounted, files, dirs>>

locals == <<statErr, manifestPath, mountPoint, alreadyMounted, deferred, manifestData,
            buildManifest, request, sigData, fname>>

world == <<mounted, files, dirs>>

Call(op, path, ok) == [op |-> op, path |-> path, ok |-> ok]

\* positions in the call log of the calls to collaborator op
CallsOf(op) == { i \in 1..Len(calls) : calls[i].op = op }

Made(op) == CallsOf(op) # {}

NoRequest ==
    [Proxy |-> <<>>, Insecure |-> FALSE, BoardId |-> 0, ChipID |-> 0,
     UniqueChipID |-> 0, BuildManifest |-> "none", Nonce |-> <<>>]

Init ==
    /\ flags \in Flags
    /\ pc = "verify"
    /\ ret = Pending
    /\ statErr = "none"
    /\ manifestPath = flags.manifest
    /\ mountPoint = <<>>
    /\ alreadyMounted = FALSE
    /\ deferred = FALSE
    /\ manifestData = "none"
    /\ buildManifest = "none"
    /\ request = NoRequest
    /\ sigData = <<>>
    /\ fname = <<>>
    /\ tries = 0
    /\ warned = FALSE
    /\ calls = <<>>
    /\ mounted \in BOOLEAN
    /\ files = <<>>
    /\ dirs = {}

\* mutant: the unmount is a success-path step, skipped when an error returns
ReturnSkipsDefer(e) ==
    /\ ret' = e
    /\ pc' = IF deferred /\ e = Nil THEN "defer" ELSE "done"

\* a return statement: the result is fixed, then the deferred closure (if
\* one is registered) runs before RunE hands the result to its caller
Return(e) ==
    /\ ret' = e
    /\ pc' = IF deferred THEN "defer" ELSE "done"

(***************************************************************************)
(* The statements of RunE.                                                 *)
(***************************************************************************)
\* mutant: the check that both sources are given is missing
VerifyErrorNoExclusive(f) ==
    IF f.xcode = <<>> /\ f.manifest = <<>> THEN ErrNoSource
    ELSE IF f.boardID = 0 \/ f.chipID = 0 \/ f.ecid = 0 \/ f.nonce = <<>> THEN ErrIdentity
    ELSE Nil

\* mutant: the identity check forgets --ecid
VerifyErrorNoEcid(f) ==
    IF f.xcode # <<>> /\ f.manifest # <<>> THEN ErrBothSources
    ELSE IF f.xcode = <<>> /\ f.manifest = <<>> THEN ErrNoSource
    ELSE IF f.boardID = 0 \/ f.chipID = 0 \/ f.nonce = <<>> THEN ErrIdentity
    ELSE Nil

\* lines 87-93: verify flags
VerifyError(f) ==
    IF f.xcode # <<>> /\ f.manifest # <<>> THEN ErrBothSources
    ELSE IF f.xcode = <<>> /\ f.manifest = <<>> THEN ErrNoSource
    ELSE IF f.boardID = 0 \/ f.chipID = 0 \/ f.ecid = 0 \/ f.nonce = <<>> THEN ErrIdentity
    ELSE Nil

\* mutant: the disk image is looked up and mounted on both branches
VerifyFlagsAlwaysXcode ==
    /\ pc = "verify"
    /\ IF VerifyError(flags) # Nil
       THEN Return(VerifyError(flags))
       ELSE /\ pc' = "stat"
            /\ ret' = ret
    /\ UNCHANGED <<flags, locals, tries, warned, calls, world>>

VerifyFlags ==
    /\ pc = "verify"
    /\ IF VerifyError(flags) # Nil
       THEN Return(VerifyError(flags))
       ELSE /\ pc' = IF flags.xcode # <<>> THEN "stat" ELSE "read"
            /\ ret' = ret
    /\ UNCHANGED <<flags, locals, tries, warned, calls, world>>

\* line 96
DmgPath(xc) == Join(xc, DmgRelPath)

\* mutant: any error of os.Stat ends the run (err != nil)
StatDmgAnyError ==
    /\ pc = "stat"
    /\ \E st \in StatResults :
         /\ calls' = Append(calls, Call("Stat", DmgPath(flags.xcode), st = "ok"))
         /\ statErr' = st
         /\ IF st # "ok"
            THEN Return(ErrFindDmg(flags.xcode))
            ELSE pc' = "mount" /\ ret' = ret
    /\ UNCHANGED <<flags, manifestPath, mountPoint, alreadyMounted, deferred,
                   manifestData, buildManifest, request, sigData, fname,
                   tries, warned, world>>

\* lines 95-99: look the disk image up
StatDmg ==
    /\ pc = "stat"
    /\ \E st \in StatResults :
         /\ calls' = Append(calls, Call("Stat", DmgPath(flags.xcode), st = "ok"))
         /\ statErr' = st
         /\ IF st = "ErrNotExist"
            THEN Return(ErrFindDmg(flags.xcode))
            ELSE pc' = "mount" /\ ret' = ret
    /\ UNCHANGED <<flags, manifestPath, mountPoint, alreadyMounted, deferred,
                   manifestData, buildManifest, request, sigData, fname,
                   tries, warned, world>>

\* mutant: the unmount is deferred whoever mounted the image
RegistersDeferAlways(already) == TRUE

\* line 105: the unmount closure is deferred only for a mount made here
RegistersDefer(already) == ~already

\* mutant: the manifest is looked for at the top of the mounted image
ManifestInMountNoRestore(mp) == Join(mp, SubSeq(ManifestRelPath, 9, Len(ManifestRelPath)))

\* line 117
ManifestInMount(mp) == Join(mp, ManifestRelPath)

\* mutant: the unmount is deferred before the mount error is looked at
MountDmgDefersFirst ==
    /\ pc = "mount"
    /\ \E r \in MountDMGResults(mounted) :
         /\ calls' = Append(calls, Call("MountDMG", DmgPath(flags.xcode), ~r.failed))
         /\ mountPoint' = r.mountPoint
         /\ alreadyMounted' = r.alreadyMounted
         /\ deferred' = RegistersDefer(r.alreadyMounted)
         /\ IF r.failed
            THEN /\ ret' = ErrMount(OpaqueError("MountDMG"))
                 /\ pc' = "defer"
                 /\ UNCHANGED <<manifestPath, mounted>>
            ELSE /\ mounted' = TRUE
                 /\ manifestPath' = ManifestInMount(r.mountPoint)
                 /\ pc' = "read"
                 /\ ret' = ret
    /\ UNCHANGED <<flags, statErr, manifestData, buildManifest, request, sigData,
                   fname, tries, warned, files, dirs>>

\* lines 100-117: mount the disk image, defer its unmount
MountDmg ==
    /\ pc = "mount"
    /\ \E r \in MountDMGResults(mounted) :
         /\ calls' = Append(calls, Call("MountDMG", DmgPath(flags.xcode), ~r.failed))
         /\ IF r.failed
            THEN /\ Return(ErrMount(OpaqueError("MountDMG")))
                 /\ UNCHANGED <<locals, mounted>>
            ELSE /\ mountPoint' = r.mountPoint
                 /\ alreadyMounted' = r.alreadyMounted
                 /\ mounted' = TRUE
                 /\ deferred' = RegistersDefer(r.alreadyMounted)
                 /\ manifestPath' = ManifestInMount(r.mountPoint)
                 /\ pc' = "read"
                 /\ UNCHANGED <<ret, statErr, manifestData, buildManifest, request, sigData, fname>>
    /\ UNCHANGED <<flags, tries, warned, files, dirs>>

\* mutant: the read error is dropped and the run goes on
ReadManifestIgnoresError ==
    /\ pc = "read"
    /\ \/ /\ calls' = Append(calls, Call("ReadFile", manifestPath, FALSE))
          /\ manifestData' = "garbage"
       \/ /\ calls' = Append(calls, Call("ReadFile", manifestPath, TRUE))
          /\ manifestData' \in ManifestContents
    /\ pc' = "parse"
    /\ ret' = ret
    /\ UNCHANGED <<flags, statErr, manifestPath, mountPoint, alreadyMounted, deferred,
                   buildManifest, request, sigData, fname, tries, warned, world>>

\* lines 120-123: read the manifest
ReadManifest ==
    /\ pc = "read"
    /\ \/ /\ calls' = Append(calls, Call("ReadFile", manifestPath, FALSE))
          /\ \E errno \in {"ENOENT", "EACCES"} :
               Return(ErrReadManifest(PathError("open", manifestPath, errno)))
          /\ UNCHANGED manifestData
       \/ /\ calls' = Append(calls, Call("ReadFile", manifestPath, TRUE))
          /\ manifestData' \in ManifestContents
          /\ pc' = "parse"
          /\ ret' = ret
    /\ UNCHANGED <<flags, statErr, manifestPath, mountPoint, alreadyMounted, deferred,
                   buildManifest, request, sigData, fname, tries, warned, world>>

\* mutant: the parse error is dropped and the request is built anyway
ParseManifestIgnoresError ==
    /\ pc = "parse"
    /\ calls' = Append(calls, Call("ParseBuildManifest", <<>>, ~ParseBuildManifestFails(manifestData)))
    /\ buildManifest' = manifestData
    /\ pc' = "personalize"
    /\ ret' = ret
    /\ UNCHANGED <<flags, statErr, manifestPath, mountPoint, alreadyMounted, deferred,
                   manifestData, request, sigData, fname, tries, warned, world>>

\* lines 124-127: parse the manifest
ParseManifest ==
    /\ pc = "parse"
    /\ calls' = Append(calls, Call("ParseBuildManifest", <<>>, ~ParseBuildManifestFails(manifestData)))
    /\ IF ParseBuildManifestFails(manifestData)
       THEN /\ Return(ErrParseManifest(OpaqueError("ParseBuildManifest")))
            /\ UNCHANGED buildManifest
       ELSE /\ buildManifest' = manifestData
            /\ pc' = "personalize"
            /\ ret' = ret
    /\ UNCHANGED <<flags, statErr, manifestPath, mountPoint, alreadyMounted, deferred,
                   manifestData, request, sigData, fname, tries, warned, world>>

\* lines 129-139: the tss.PersonalConfig built from the flags
PersonalConfig(f, bm) ==
    [Proxy |-> f.proxy, Insecure |-> f.insecure, BoardId |-> f.boardID,
     ChipID |-> f.chipID, UniqueChipID |-> f.ecid, BuildManifest |-> bm,
     Nonce |-> f.nonce]

\* mutant: a failed exchange is tried again instead of ending the run
PersonalizeRetries ==
    /\ pc = "personalize"
    /\ request' = PersonalConfig(flags, buildManifest)
    /\ \/ /\ calls' = Append(calls, Call("Personalize", <<>>, FALSE))
          /\ Cardinality(CallsOf("Personalize")) < RetryAttempts
          /\ pc' = "personalize"
          /\ ret' = ret
          /\ UNCHANGED sigData
       \/ /\ calls' = Append(calls, Call("Personalize", <<>>, FALSE))
          /\ Cardinality(CallsOf("Personalize")) >= RetryAttempts
          /\ Return(ErrPersonalize(OpaqueError("Personalize")))
          /\ UNCHANGED sigData
       \/ /\ calls' = Append(calls, Call("Personalize", <<>>, TRUE))
          /\ sigData' \in Payloads
          /\ pc' = "output"
          /\ ret' = ret
    /\ UNCHANGED <<flags, statErr, manifestPath, mountPoint, alreadyMounted, deferred,
                   manifestData, buildManifest, fname, tries, warned, world>>

\* lines 129-142: the signing exchange
Personalize ==
    /\ pc = "personalize"
    /\ request' = PersonalConfig(flags, buildManifest)
    /\ \/ /\ calls' = Append(calls, Call("Personalize", <<>>, FALSE))
          /\ Return(ErrPersonalize(OpaqueError("Personalize")))
          /\ UNCHANGED sigData
       \/ /\ calls' = Append(calls, Call("Personalize", <<>>, TRUE))
          /\ sigData' \in Payloads
          /\ pc' = "output"
          /\ ret' = ret
    /\ UNCHANGED <<flags, statErr, manifestPath, mountPoint, alreadyMounted, deferred,
                   manifestData, buildManifest, fname, tries, warned, world>>

\* mutant: chip id and ecid change places
SignatureNameSwapped(boardID, chipID, ecid) ==
    FormatUint(boardID) \o <<".">> \o FormatUint(ecid) \o <<".">>
      \o FormatUint(chipID) \o <<".">> \o SignatureSuffix

\* line 144
SignatureName(boardID, chipID, ecid) ==
    FormatUint(boardID) \o <<".">> \o FormatUint(chipID) \o <<".">>
      \o FormatUint(ecid) \o <<".">> \o SignatureSuffix

\* lines 144-150: the path the signature goes to
SignaturePath(out, boardID, chipID, ecid) ==
    IF out # <<>> THEN Join(out, SignatureName(boardID, chipID, ecid))
    ELSE SignatureName(boardID, chipID, ecid)

\* mutant: the error of os.MkdirAll is dropped and the write is tried anyway
PrepareOutputIgnoresMkdirError ==
    /\ pc = "output"
    /\ IF flags.output # <<>>
       THEN \/ /\ calls' = Append(calls, Call("MkdirAll", flags.output, FALSE))
               /\ UNCHANGED dirs
            \/ /\ calls' = Append(calls, Call("MkdirAll", flags.output, TRUE))
               /\ dirs' = dirs \cup {flags.output}
       ELSE UNCHANGED <<calls, dirs>>
    /\ fname' = SignaturePath(flags.output, flags.boardID, flags.chipID, flags.ecid)
    /\ pc' = "write"
    /\ ret' = ret
    /\ UNCHANGED <<flags, statErr, manifestPath, mountPoint, alreadyMounted, deferred,
                   manifestData, buildManifest, request, sigData, tries, warned,
                   mounted, files>>

\* lines 144-150: name the signature file, create the output folder
PrepareOutput ==
    /\ pc = "output"
    /\ IF flags.output # <<>>
       THEN \/ /\ calls' = Append(calls, Call("MkdirAll", flags.output, FALSE))
               /\ Return(ErrMkdir(flags.output, PathError("mkdir", flags.output, "EACCES")))
               /\ fname' = SignatureName(flags.boardID, flags.chipID, flags.ecid)
               /\ UNCHANGED dirs
            \/ /\ calls' = Append(calls, Call("MkdirAll", flags.output, TRUE))
               /\ dirs' = dirs \cup {flags.output}
               /\ fname' = SignaturePath(flags.output, flags.boardID, flags.chipID, flags.ecid)
               /\ pc' = "write"
               /\ ret' = ret
       ELSE /\ fname' = SignaturePath(flags.output, flags.boardID, flags.chipID, flags.ecid)
            /\ pc' = "write"
            /\ UNCHANGED <<ret, calls, dirs>>
    /\ UNCHANGED <<flags, statErr, manifestPath, mountPoint, alreadyMounted, deferred,
                   manifestData, buildManifest, request, sigData, tries, warned,
                   mounted, files>>

\* line 154: the value formatted into the write error
WriteErrorArg(out, fn) == out

\* mutant: the error of os.WriteFile is not looked at
WriteSignatureIgnoresError ==
    /\ pc = "write"
    /\ \/ /\ calls' = Append(calls, Call("WriteFile", fname, TRUE))
          /\ files' = (fname :> sigData) @@ files
       \/ /\ calls' = Append(calls, Call("WriteFile", fname, FALSE))
          /\ UNCHANGED files
       \/ /\ calls' = Append(calls, Call("WriteFile", fname, FALSE))
          /\ \E k \in 0..Len(sigData) : files' = (fname :> SubSeq(sigData, 1, k)) @@ files
    /\ Return(Nil)
    /\ UNCHANGED <<flags, locals, tries, warned, mounted, dirs>>

\* lines 152-157: write the signature, return nil
WriteSignature ==
    /\ pc = "write"
    /\ \/ /\ calls' = Append(calls, Call("WriteFile", fname, TRUE))
          /\ files' = (fname :> sigData) @@ files
          /\ Return(Nil)
       \/ \* the file could not be opened
          /\ calls' = Append(calls, Call("WriteFile", fname, FALSE))
          /\ Return(ErrWrite(WriteErrorArg(flags.output, fname), PathError("open", fname, "EACCES")))
          /\ UNCHANGED files
       \/ \* the write or the close failed: some prefix of the data is there
          /\ calls' = Append(calls, Call("WriteFile", fname, FALSE))
          /\ \E k \in 0..Len(sigData) : files' = (fname :> SubSeq(sigData, 1, k)) @@ files
          /\ Return(ErrWrite(WriteErrorArg(flags.output, fname), PathError("write", fname, "ENOSPC")))
    /\ UNCHANGED <<flags, locals, tries, warned, mounted, dirs>>

\* lines 108-110: the deferred closure starts utils.Retry
DeferredUnmount ==
    /\ pc = "defer"
    /\ calls' = Append(calls, Call("Retry", mountPoint, TRUE))
    /\ tries' = 0
    /\ pc' = "retry"
    /\ UNCHANGED <<flags, ret, locals, warned, world>>

\* mutant: an unmount that still fails after the last attempt becomes the
\* result of the command
UnmountAttemptFatal ==
    /\ pc = "retry"
    /\ \/ /\ calls' = Append(calls, Call("Unmount", mountPoint, TRUE))
          /\ mounted' = FALSE
          /\ pc' = "done"
          /\ UNCHANGED <<tries, warned, ret>>
       \/ /\ calls' = Append(calls, Call("Unmount", mountPoint, FALSE))
          /\ tries' = tries + 1
          /\ IF RetryGivesUp(tries + 1, RetryAttempts)
             THEN /\ warned' = TRUE
                  /\ pc' = "done"
                  /\ ret' = Errorf("failed to unmount %s at %s: %v", mountPoint, OpaqueError("Unmount"))
             ELSE warned' = warned /\ pc' = "retry" /\ ret' = ret
          /\ UNCHANGED mounted
    /\ UNCHANGED <<flags, locals, files, dirs>>

\* mutant: the count of failed attempts wraps around before it reaches the
\* limit, so utils.Retry never gives up (the repeated calls are not logged)
UnmountAttemptNeverGivesUp ==
    /\ pc = "retry"
    /\ \/ /\ calls' = Append(calls, Call("Unmount", mountPoint, TRUE))
          /\ mounted' = FALSE
          /\ pc' = "done"
          /\ UNCHANGED <<tries, warned>>
       \/ /\ tries' = (tries + 1) % (RetryAttempts - 1)
          /\ pc' = "retry"
          /\ UNCHANGED <<calls, warned, mounted>>
    /\ UNCHANGED <<flags, ret, locals, files, dirs>>

\* lines 110-115: one utils.Unmount(mountPoint, false) made by utils.Retry
UnmountAttempt ==
    /\ pc = "retry"
    /\ \/ /\ calls' = Append(calls, Call("Unmount", mountPoint, TRUE))
          /\ mounted' = FALSE
          /\ pc' = "done"
          /\ UNCHANGED <<tries, warned>>
       \/ /\ calls' = Append(calls, Call("Unmount", mountPoint, FALSE))
          /\ tries' = tries + 1
          /\ IF RetryGivesUp(tries + 1, RetryAttempts)
             THEN warned' = TRUE /\ pc' = "done"
             ELSE warned' = warned /\ pc' = "retry"
          /\ UNCHANGED mounted
    /\ UNCHANGED <<flags, ret, locals, files, dirs>>

Next ==
    \/ VerifyFlags
    \/ StatDmg
    \/ MountDmg
    \/ ReadManifest
    \/ ParseManifest
    \/ Personalize
    \/ PrepareOutput
    \/ WriteSignature
    \/ DeferredUnmount
    \/ UnmountAttempt

Spec == Init /\ [][Next]_vars

\* a step of RunE: every statement moves the program on, or counts one more
\* failed attempt of utils.Retry; a step can be taken until RunE has returned
\* and its deferred closure has ended
Advance ==
    /\ pc # "done"
    /\ pc' \in {"stat", "mount", "read", "parse", "personalize", "output",
                "write", "defer", "retry", "done"}
    /\ tries' \in 0..RetryAttempts
    /\ <<pc', tries'>> # <<pc, tries>>

\* RunE is sequential code: whenever a statement is to be executed and the
\* collaborator it calls returns, it is executed
FairSpec == Init /\ [][Next]_vars /\ WF_<<pc, tries>>(Advance)

(***************************************************************************)
(* Properties.                                                             *)
(***************************************************************************)
\* RunE has executed a return statement
Returned == pc \in {"defer", "retry", "done"}

\* the errors that reject the flags
ConfigurationErrors ==
    { Errorf(m, <<>>, NoCause) :
        m \in { "cannot specify both --xcode and --manifest",
                "must specify either --xcode or --manifest",
                "must specify --board-id, --chip-id, --ecid AND --nonce" } }

\* this invocation mounted the disk image itself
OwnMount == (\E i \in CallsOf("MountDMG") : calls[i].ok) /\ ~alreadyMounted

SourcesBothOrNeither == (flags.xcode # <<>>) <=> (flags.manifest # <<>>)

IdentityIncomplete ==
    flags.boardID = 0 \/ flags.chipID = 0 \/ flags.ecid = 0 \/ flags.nonce = <<>>

\* C1: when --xcode and --manifest are both given or both missing, the only
\* step RunE takes is the one that ends it with a configuration error, and no
\* collaborator has been called, no file written, no directory made.
C1_ExclusiveSources ==
    SourcesBothOrNeither =>
        /\ calls = <<>>
        /\ files = <<>>
        /\ dirs = {}
        /\ pc \in {"verify", "done"}
        /\ pc = "done" => ret \in ConfigurationErrors

C1_Witness ==
    /\ pc = "done"
    /\ flags.xcode # <<>> /\ flags.manifest # <<>>
    /\ ~IdentityIncomplete
    /\ ret = ErrBothSources

\* C2: when board id, chip id or ecid is 0 or the nonce is empty, RunE ends
\* with a configuration error whatever the other flags are, and nothing was
\* mounted, read, signed or written.
C2_IdentityRequired ==
    IdentityIncomplete =>
        /\ pc \in {"verify", "done"}
        /\ pc = "done" => ret \in ConfigurationErrors
        /\ ~Made("MountDMG") /\ ~Made("ReadFile")
        /\ ~Made("Personalize") /\ ~Made("WriteFile")
        /\ files = <<>>

C2_Witness ==
    /\ pc = "done"
    /\ flags.ecid = 0 /\ flags.boardID # 0 /\ flags.chipID # 0 /\ flags.nonce # <<>>
    /\ ~SourcesBothOrNeither
    /\ ret = ErrIdentity

\* C3: when utils.MountDMG reported the image as already mounted, this
\* invocation never starts the unmount retries and never calls utils.Unmount,
\* in any state up to and including its end.
C3_NeverUnmountForeignMount ==
    alreadyMounted => ~Made("Retry") /\ ~Made("Unmount") /\ pc \notin {"defer", "retry"}

C3_Witness ==
    /\ pc = "done"
    /\ alreadyMounted
    /\ ret.status = "error"
    /\ Made("Personalize")

\* C4: the unmount retry sequence is never started twice, and an invocation
\* that made the mount itself has started it exactly once when it ends,
\* whichever return statement ended it.
C4_ReleaseExactlyOnce ==
    /\ Cardinality(CallsOf("Retry")) <= 1
    /\ (OwnMount /\ pc = "done") => Cardinality(CallsOf("Retry")) = 1
    /\ (OwnMount /\ Returned) =>
          ret.msg \in { "", "failed to read BuildManifest.plist: %w",
                        "failed to parse BuildManifest.plist: %w",
                        "failed to personalize DDI: %w",
                        "failed to create output folder '%s': %w",
                        "failed to write signature to %s: %w" }

C4_Witness ==
    /\ pc = "done"
    /\ OwnMount
    /\ ret = ErrPersonalize(OpaqueError("Personalize"))
    /\ Cardinality(CallsOf("Retry")) = 1

\* C5: one release makes at least one and at most 3 calls of utils.Unmount; a
\* call that succeeds is the last call of the invocation, and three failed
\* calls are followed by none.
C5_UnmountAttemptsBounded ==
    LET u == CallsOf("Unmount") IN
    /\ Cardinality(u) <= 3
    /\ \A i \in u : calls[i].ok => i = Len(calls)
    /\ \A i \in u : \E j \in CallsOf("Retry") : j < i
    /\ (Made("Retry") /\ pc = "done") => Cardinality(u) >= 1
    /\ (pc = "retry") => Cardinality(u) < 3

C5_Witness ==
    /\ pc = "done"
    /\ Cardinality(CallsOf("Unmount")) = 3
    /\ \A i \in CallsOf("Unmount") : ~calls[i].ok

\* C6: from the return statement on, while the deferred unmount runs, the
\* result stays what the return statement made it, whether the unmount
\* attempts succeed or all fail.
C6_ResultUnaffectedByUnmount ==
    [][ (pc \in {"defer", "retry"}) => (ret' = ret /\ ret # Pending) ]_vars

C6_Witness ==
    /\ pc = "done"
    /\ warned
    /\ ret = Nil
    /\ Cardinality(CallsOf("Unmount")) = 3

(***************************************************************************)
(* Reading a path and a file name back: the fields between separators, the *)
(* number a decimal numeral denotes, the directory a path leads to.        *)
(***************************************************************************)
RECURSIVE SplitOn(_, _)
SplitOn(str, sep) ==
    IF \A i \in 1..Len(str) : str[i] # sep THEN <<str>>
    ELSE LET k == CHOOSE i \in 1..Len(str) :
                     str[i] = sep /\ \A j \in 1..(i - 1) : str[j] # sep
         IN <<SubSeq(str, 1, k - 1)>> \o SplitOn(SubSeq(str, k + 1, Len(str)), sep)

DigitValue(c) == CHOOSE d \in 0..9 : Digits[d + 1] = c

\* a numeral as %d prints it: digits only, no leading zero
IsNumeral(str) ==
    /\ Len(str) >= 1
    /\ \A i \in 1..Len(str) : \E d \in 0..9 : Digits[d + 1] = str[i]
    /\ Len(str) > 1 => str[1] # "0"

RECURSIVE NumeralValue(_)
NumeralValue(str) ==
    IF Len(str) = 0 THEN 0
    ELSE 10 * NumeralValue(SubSeq(str, 1, Len(str) - 1)) + DigitValue(str[Len(str)])

\* the place a path names: is it absolute, and the names walked from the
\* root or the working directory ("." stays, ".." goes up one)
RECURSIVE Walk(_, _, _)
Walk(names, rooted, at) ==
    IF names = <<>> THEN at
    ELSE LET h == Head(names) IN
         IF h = <<>> \/ h = <<".">> THEN Walk(Tail(names), rooted, at)
         ELSE IF h = <<".", ".">>
         THEN IF at # <<>> /\ at[Len(at)] # <<".", ".">>
              THEN Walk(Tail(names), rooted, SubSeq(at, 1, Len(at) - 1))
              ELSE IF rooted THEN Walk(Tail(names), rooted, at)
              ELSE Walk(Tail(names), rooted, Append(at, h))
         ELSE Walk(Tail(names), rooted, Append(at, h))

Place(path) ==
    LET rooted == path # <<>> /\ path[1] = "/"
    IN [rooted |-> rooted, at |-> Walk(SplitOn(path, "/"), rooted, <<>>)]

\* name is "<boardID>.<chipID>.<ecid>.personalized.signature" in decimal
IsSignatureNameOf(name, boardID, chipID, ecid) ==
    LET f == SplitOn(name, ".") IN
    /\ Len(f) = 5
    /\ IsNumeral(f[1]) /\ NumeralValue(f[1]) = boardID
    /\ IsNumeral(f[2]) /\ NumeralValue(f[2]) = chipID
    /\ IsNumeral(f[3]) /\ NumeralValue(f[3]) = ecid
    /\ f[4] = <<"p", "e", "r", "s", "o", "n", "a", "l", "i", "z", "e", "d">>
    /\ f[5] = <<"s", "i", "g", "n", "a", "t", "u", "r", "e">>

\* C7: every os.WriteFile of the invocation goes to a path whose last name is
\* "<boardID>.<chipID>.<ecid>.personalized.signature", the three values in
\* decimal and in that order; without --output the path is that bare name,
\* with --output it is that name inside the directory --output names.
C7_SignatureFileName ==
    \A i \in CallsOf("WriteFile") :
        LET path == calls[i].path
            names == SplitOn(path, "/")
            name == names[Len(names)]
        IN /\ IsSignatureNameOf(name, flags.boardID, flags.chipID, flags.ecid)
           /\ IF flags.output = <<>>
              THEN path = name
              ELSE /\ Place(path).rooted = Place(flags.output).rooted
                   /\ Place(path).at = Append(Place(flags.output).at, name)

C7_Witness ==
    /\ pc = "done"
    /\ ret = Nil
    /\ flags.boardID = 100 /\ flags.chipID = 200 /\ flags.ecid = 300
    /\ flags.output = <<".", "/", "o", "/">>
    /\ \E i \in CallsOf("WriteFile") :
         calls[i].path = <<"o", "/", "1", "0", "0", ".", "2", "0", "0", ".", "3", "0", "0", ".">> \o SignatureSuffix

\* the path the manifest is to be read from: the one given with --manifest,
\* or Restore/BuildManifest.plist under the mount point
ExpectedManifestPath ==
    IF flags.manifest # <<>> THEN flags.manifest
    ELSE mountPoint \o <<"/">> \o ManifestRelPath

\* a successful os.WriteFile is the last stage call of the invocation
WriteSucceeded ==
    \E i \in CallsOf("WriteFile") :
        /\ calls[i].ok
        /\ \A j \in (i + 1)..Len(calls) : calls[j].op \in {"Retry", "Unmount"}

\* C8 as stated: on success the signature file is at the computed path, is
\* not empty and holds the payload of the signing exchange, and success
\* comes only after the write succeeded.
C8_SuccessWritesNonEmptySignature ==
    (ret = Nil) =>
        /\ WriteSucceeded
        /\ fname \in DOMAIN files
        /\ files[fname] = sigData
        /\ Len(files[fname]) > 0

\* C8 amended: on success the signature file is at the computed path and
\* holds exactly the payload tss.Personalize returned, empty when the payload
\* is empty; success comes only after os.WriteFile succeeded.
C8_SuccessWritesSignature ==
    (ret = Nil) =>
        /\ WriteSucceeded
        /\ Made("Personalize") /\ \A i \in CallsOf("Personalize") : calls[i].ok
        /\ fname \in DOMAIN files
        /\ files[fname] = sigData
        /\ \A i \in CallsOf("WriteFile") : calls[i].path = fname

C8_Witness ==
    /\ pc = "done"
    /\ ret = Nil
    /\ sigData = <<255, 0>>
    /\ files[fname] = <<255, 0>>

\* C9: when os.ReadFile of the manifest fails, RunE returns the manifest
\* read error, whose cause names the path that was to be read (the
\* --manifest path, or Restore/BuildManifest.plist under the mount point);
\* tss.Personalize is not called and no file is written.
C9_ManifestReadFailure ==
    \A i \in CallsOf("ReadFile") :
        ~calls[i].ok =>
            /\ Returned
            /\ calls[i].path = ExpectedManifestPath
            /\ ret.status = "error"
            /\ ret.msg = "failed to read BuildManifest.plist: %w"
            /\ ret.cause.op = "open"
            /\ ret.cause.path = ExpectedManifestPath
            /\ ~Made("ParseBuildManifest") /\ ~Made("Personalize")
            /\ ~Made("MkdirAll") /\ ~Made("WriteFile")
            /\ files = <<>>

C9_Witness ==
    /\ pc = "done"
    /\ flags.manifest = <<"m", ".", "p", "l", "i", "s", "t">>
    /\ \E i \in CallsOf("ReadFile") : ~calls[i].ok
    /\ ret.cause = PathError("open", <<"m", ".", "p", "l", "i", "s", "t">>, "ENOENT")

\* C10 as stated: when RunE reports a failure after making the mount itself,
\* the image is no longer mounted.
C10_FailureLeavesNoMount ==
    (pc = "done" /\ ret.status = "error" /\ OwnMount) => ~mounted

\* C10 amended: when RunE reports a failure after making the mount itself,
\* the release has run to its end before the report: either an unmount
\* succeeded and the image is no longer mounted, or 3 unmounts failed, the
\* warning was logged and the image is still mounted.
C10_FailureAfterReleaseEnded ==
    (pc = "done" /\ ret.status = "error" /\ OwnMount) =>
        /\ Made("Retry")
        /\ Made("Unmount")
        /\ \/ /\ calls[Len(calls)] = Call("Unmount", mountPoint, TRUE)
              /\ ~mounted /\ ~warned
           \/ /\ Cardinality({ i \in CallsOf("Unmount") : ~calls[i].ok }) = 3
              /\ \A i \in CallsOf("Unmount") : ~calls[i].ok
              /\ mounted /\ warned

C10_Witness ==
    /\ pc = "done"
    /\ ret = ErrParseManifest(OpaqueError("ParseBuildManifest"))
    /\ OwnMount
    /\ ~mounted
    /\ Cardinality(CallsOf("Unmount")) = 2

\* C11: when os.WriteFile fails, the error RunE returns is the write error
\* and it names the path the write was attempted on: its wrapped cause
\* carries exactly the path handed to os.WriteFile, also without --output.
C11_WriteErrorNamesPath ==
    \A i \in CallsOf("WriteFile") :
        ~calls[i].ok =>
            /\ Returned
            /\ ret.status = "error"
            /\ ret.msg = "failed to write signature to %s: %w"
            /\ calls[i].path # <<>>
            /\ ret.arg = calls[i].path \/ ret.cause.path = calls[i].path

C11_Witness ==
    /\ pc = "done"
    /\ flags.output = <<>>
    /\ flags.boardID = 100 /\ flags.chipID = 200 /\ flags.ecid = 300
    /\ \E i \in CallsOf("WriteFile") : ~calls[i].ok
    /\ ret.arg = <<>>
    /\ ret.cause.path = <<"1", "0", "0", ".", "2", "0", "0", ".", "3", "0", "0", ".">> \o SignatureSuffix

\* C12: tss.Personalize is called at most once in an invocation; when it
\* fails RunE returns the personalize error wrapping its cause, and neither
\* os.MkdirAll nor os.WriteFile is called and nothing is written.
C12_SigningNotRetried ==
    /\ Cardinality(CallsOf("Personalize")) <= 1
    /\ \A i \in CallsOf("Personalize") :
         ~calls[i].ok =>
             /\ Returned
             /\ ret = Errorf("failed to personalize DDI: %w", <<>>, OpaqueError("Personalize"))
             /\ \A j \in (i + 1)..Len(calls) : calls[j].op \in {"Retry", "Unmount"}
             /\ ~Made("MkdirAll") /\ ~Made("WriteFile")
             /\ files = <<>> /\ dirs = {}

C12_Witness ==
    /\ pc = "done"
    /\ \E i \in CallsOf("Personalize") : ~calls[i].ok
    /\ flags.output # <<>>
    /\ ret.msg = "failed to personalize DDI: %w"
    /\ ~Made("Retry")

\* RunE took the --xcode branch at line 95
XcodeBranch == flags.xcode # <<>> /\ flags.manifest = <<>>

\* C13: on the --xcode branch, when os.Stat reports the disk image as not
\* existing RunE returns the not-found error and utils.MountDMG is never
\* called; otherwise utils.MountDMG is called, and the manifest is read only
\* after a successful mount, from Restore/BuildManifest.plist under the mount
\* point it returned, also when the image was already mounted.
C13_XcodeBranchManifest ==
    XcodeBranch =>
        /\ \A i \in CallsOf("Stat") : calls[i].path = flags.xcode \o DmgRelPath
        /\ statErr = "ErrNotExist" =>
              /\ Returned
              /\ ret.msg = "failed to find iOS_DDI.dmg in '%s' (install NEW XCode.app or Xcode-beta.app)"
              /\ ret.arg = flags.xcode
              /\ ~Made("MountDMG") /\ ~Made("ReadFile")
        /\ (statErr \notin {"none", "ErrNotExist"} /\ pc # "mount") => Made("MountDMG")
        /\ \A i \in CallsOf("ReadFile") :
              /\ \E j \in CallsOf("MountDMG") : j < i /\ calls[j].ok
              /\ mountPoint \in MountPoints
              /\ calls[i].path = mountPoint \o <<"/">> \o
                   <<"R", "e", "s", "t", "o", "r", "e", "/", "B", "u", "i", "l", "d", "M", "a", "n", "i", "f", "e", "s", "t", ".", "p", "l", "i", "s", "t">>

C13_Witness ==
    /\ pc = "done"
    /\ XcodeBranch
    /\ alreadyMounted
    /\ mountPoint = <<"/", "v", "/", "d">>
    /\ \E i \in CallsOf("ReadFile") : calls[i].ok /\ calls[i].path = <<"/", "v", "/", "d", "/">> \o ManifestRelPath

\* C14: when utils.MountDMG fails, RunE ends at once with the mount error:
\* the failed call is the last call of the invocation, so no unmount, no
\* manifest read, no signing exchange and no write follows.
C14_MountFailureIsTerminal ==
    \A i \in CallsOf("MountDMG") :
        ~calls[i].ok =>
            /\ pc = "done"
            /\ i = Len(calls)
            /\ ret = Errorf("failed to mount iOS_DDI.dmg: %w", <<>>, OpaqueError("MountDMG"))
            /\ ~deferred
            /\ ~Made("Retry") /\ ~Made("Unmount") /\ ~Made("ReadFile")
            /\ ~Made("Personalize") /\ ~Made("MkdirAll") /\ ~Made("WriteFile")
            /\ files = <<>> /\ dirs = {}

C14_Witness ==
    /\ pc = "done"
    /\ \E i \in CallsOf("MountDMG") : ~calls[i].ok
    /\ statErr = "ok"
    /\ ~mounted
    /\ ret.msg = "failed to mount iOS_DDI.dmg: %w"

\* RunE skipped the --xcode branch at line 95
ManifestBranch == flags.xcode = <<>> /\ flags.manifest # <<>>

\* C15: with --manifest and no --xcode, os.Stat, utils.MountDMG, utils.Retry
\* and utils.Unmount are never called and no unmount is deferred, and
\* os.ReadFile is given exactly the --manifest path.
C15_ManifestBranchNeverMounts ==
    ManifestBranch =>
        /\ ~Made("Stat") /\ ~Made("MountDMG") /\ ~Made("Retry") /\ ~Made("Unmount")
        /\ ~deferred /\ ~alreadyMounted /\ mountPoint = <<>>
        /\ pc \notin {"stat", "mount", "defer", "retry"}
        /\ manifestPath = flags.manifest
        /\ \A i \in CallsOf("ReadFile") : calls[i].path = flags.manifest

C15_Witness ==
    /\ pc = "done"
    /\ ManifestBranch
    /\ ret = Nil
    /\ calls[1] = Call("ReadFile", <<"m", ".", "p", "l", "i", "s", "t">>, TRUE)

\* the stage of the orchestration a collaborator call belongs to:
\* 1 Validating (no call), 2 AcquiringMount, 3 ResolvingManifest,
\* 4 Building (no call), 5 Invoking, 6 Writing, 7 ReleasingMount
StageOf(op) ==
    CASE op \in {"Stat", "MountDMG"} -> 2
      [] op \in {"ReadFile", "ParseBuildManifest"} -> 3
      [] op = "Personalize" -> 5
      [] op \in {"MkdirAll", "WriteFile"} -> 6
      [] op \in {"Retry", "Unmount"} -> 7

\* C16: the calls of an invocation follow the stage order; a call of a stage
\* before ReleasingMount is made only if the call before it succeeded (the
\* os.Stat probe excepted: AcquiringMount has succeeded when utils.MountDMG
\* has); the request is built only from a parsed manifest; ReleasingMount
\* comes last, after whichever stage returned; and on a successful run with
\* a mount of its own every unmount comes after the successful write.
C16_StageOrder ==
    /\ pc = "verify" => calls = <<>> /\ ret = Pending
    /\ \A i \in 1..Len(calls) : \A j \in (i + 1)..Len(calls) :
          StageOf(calls[i].op) <= StageOf(calls[j].op)
    /\ \A i \in 1..(Len(calls) - 1) :
          StageOf(calls[i + 1].op) < 7 => calls[i].ok \/ calls[i].op = "Stat"
    /\ request # NoRequest =>
          \E i \in CallsOf("ParseBuildManifest") : calls[i].ok
    /\ Made("Retry") => ret # Pending /\ pc \in {"retry", "done"}
    /\ pc = "done" => ret # Pending
    /\ (ret = Nil /\ OwnMount) =>
          \A u \in CallsOf("Unmount") :
              \E w \in CallsOf("WriteFile") :
                  calls[w].ok /\ w < u /\ calls[w].path \in DOMAIN files

C16_Witness ==
    /\ pc = "done"
    /\ ret = Nil
    /\ OwnMount
    /\ [i \in 1..Len(calls) |-> calls[i].op] =
          <<"Stat", "MountDMG", "ReadFile", "ParseBuildManifest", "Personalize",
            "MkdirAll", "WriteFile", "Retry", "Unmount">>

\* C17: every invocation reaches its end with a result (nil or an error),
\* given that each collaborator call returns; the release cannot go on for
\* ever, since utils.Retry gives up after its bounded number of attempts.
C17_Terminates == <>(pc = "done" /\ ret # Pending)

C17_Witness ==
    /\ pc = "done"
    /\ warned
    /\ tries = 3
    /\ ret.msg = "failed to write signature to %s: %w"

\* C18: a directory is created or a file written only after
\* tss.Personalize succeeded: a run that ends in a flag, image lookup, mount,
\* manifest read, manifest parse or signing error has called neither
\* os.MkdirAll nor os.WriteFile; and after a failed os.MkdirAll no
\* os.WriteFile is called.
C18_OutputUntouchedUnlessSigned ==
    /\ \A i \in CallsOf("MkdirAll") \cup CallsOf("WriteFile") :
          \E j \in CallsOf("Personalize") : j < i /\ calls[j].ok
    /\ (files # <<>> \/ dirs # {}) =>
          \E j \in CallsOf("Personalize") : calls[j].ok
    /\ ret.msg \in { "cannot specify both --xcode and --manifest",
                     "must specify either --xcode or --manifest",
                     "must specify --board-id, --chip-id, --ecid AND --nonce",
                     "failed to find iOS_DDI.dmg in '%s' (install NEW XCode.app or Xcode-beta.app)",
                     "failed to mount iOS_DDI.dmg: %w",
                     "failed to read BuildManifest.plist: %w",
                     "failed to parse BuildManifest.plist: %w",
                     "failed to personalize DDI: %w" } =>
          /\ ~Made("MkdirAll") /\ ~Made("WriteFile")
          /\ files = <<>> /\ dirs = {}
    /\ \A i \in CallsOf("MkdirAll") :
          ~calls[i].ok =>
              /\ Returned
              /\ ret.msg = "failed to create output folder '%s': %w"
              /\ ~Made("WriteFile")
              /\ files = <<>>

C18_Witness ==
    /\ pc = "done"
    /\ \E i \in CallsOf("MkdirAll") : ~calls[i].ok
    /\ sigData # <<>>
    /\ files = <<>>
    /\ ret.arg = <<"o">>

\* C19: on the --xcode branch utils.MountDMG is called (once) exactly when
\* os.Stat of the disk image did not report "does not exist": after another
\* Stat error, such as permission denied, the run goes on to the mount and
\* does not return the not-found error.
C19_MountUnlessNotExist ==
    XcodeBranch =>
        /\ Cardinality(CallsOf("MountDMG")) <= 1
        /\ Made("MountDMG") => statErr \in {"ok", "ErrPermission"}
        /\ statErr \in {"ok", "ErrPermission"} => pc = "mount" \/ Made("MountDMG")
        /\ statErr = "ErrNotExist" => ~Made("MountDMG") /\ pc = "done"
        /\ statErr = "ErrPermission" =>
              /\ \E i \in CallsOf("Stat") : ~calls[i].ok
              /\ ret.msg # "failed to find iOS_DDI.dmg in '%s' (install NEW XCode.app or Xcode-beta.app)"

C19_Witness ==
    /\ pc = "done"
    /\ XcodeBranch
    /\ statErr = "ErrPermission"
    /\ \E i \in CallsOf("MountDMG") : calls[i].ok
    /\ ret = Nil

====
